---- MODULE Spec2Model ----
(***************************************************************************)
(* Natal chart API (index.js): chart computation engine.                   *)
(*                                                                         *)
(* Angles are fixed-point integers, Scale units per degree.  Values that   *)
(* went through toFixed(2) are integers in hundredths of a degree.         *)
(* Scale is a multiple of 100 by an odd factor, so that no representable   *)
(* angle lies exactly half-way between two hundredths.                     *)
(***************************************************************************)
EXTENDS Integers, Sequences, FiniteSets, TLC

Scale == 100 * 3

Deg(d) == d * Scale

Abs(x) == IF x < 0 THEN 0 - x ELSE x

\* JavaScript values that are not numbers
NoLon == 0 - 1000000
NaNDeg == 0 - 1000000
NoHouse == 0
NoCusps == << >>
Undefined == "undefined"

\* ---------------------------------------------------------------------
\* Fixed tables
\* ---------------------------------------------------------------------
SIGNS ==
  << "Aries", "Taurus", "Gemini", "Cancer", "Leo", "Virgo",
     "Libra", "Scorpio", "Sagittarius", "Capricorn", "Aquarius", "Pisces" >>

\* a catalog with one orb of 15 degrees for every type
aspectTypesWide ==
  << [type |-> "Conjunction", angle |-> 0,   orb |-> 15],
     [type |-> "Opposition",  angle |-> 180, orb |-> 15],
     [type |-> "Trine",       angle |-> 120, orb |-> 15],
     [type |-> "Square",      angle |-> 90,  orb |-> 15],
     [type |-> "Sextile",     angle |-> 60,  orb |-> 15] >>

aspectTypes ==
  << [type |-> "Conjunction", angle |-> 0,   orb |-> 8],
     [type |-> "Opposition",  angle |-> 180, orb |-> 8],
     [type |-> "Trine",       angle |-> 120, orb |-> 8],
     [type |-> "Square",      angle |-> 90,  orb |-> 8],
     [type |-> "Sextile",     angle |-> 60,  orb |-> 6] >>

\* ---------------------------------------------------------------------
\* Number formatting and remainder
\* ---------------------------------------------------------------------
\* x % m of JavaScript: the result takes the sign of the dividend
JsRem(x, m) == IF x >= 0 THEN x % m ELSE 0 - ((0 - x) % m)

\* +(x).toFixed(2): x in Scale units, result in hundredths of a degree,
\* the nearest hundredth
toFixed2(x) ==
  IF x >= 0 THEN (2 * 100 * x + Scale) \div (2 * Scale)
  ELSE 0 - ((2 * 100 * (0 - x) + Scale) \div (2 * Scale))

\* ---------------------------------------------------------------------
\* getSign / getDegreeInSign
\* ---------------------------------------------------------------------
getSign(degree) ==
  IF degree = NoLon THEN Undefined
  ELSE LET signIndex == degree \div Deg(30)
       IN  IF signIndex \in 0..11 THEN SIGNS[signIndex + 1] ELSE Undefined

getDegreeInSign(degree) ==
  IF degree = NoLon THEN NaNDeg
  ELSE toFixed2(JsRem(degree, Deg(30)))

\* ---------------------------------------------------------------------
\* House scan (getAllPositions, and inline in the structured handler)
\* ---------------------------------------------------------------------
\* a containment test without the wrap case
houseContainsNoWrap(start, end, absDegree) ==
  absDegree >= start /\ absDegree < end

\* the containment test of one iteration of the scan
houseContains(start, end, absDegree) ==
  IF start < end
  THEN absDegree >= start /\ absDegree < end
  ELSE absDegree >= start \/ absDegree < end

RECURSIVE houseScan(_, _, _)
houseScan(cusps, absDegree, h) ==
  IF h > 12 THEN NoHouse
  ELSE IF houseContains(cusps[h], cusps[(h % 12) + 1], absDegree) THEN h
  ELSE houseScan(cusps, absDegree, h + 1)

\* let house = null; if (cusps) { for (h = 1..12) ... break }
\* an undefined longitude compares false with every cusp
houseOf(cusps, absDegree) ==
  IF cusps = NoCusps \/ absDegree = NoLon THEN NoHouse
  ELSE houseScan(cusps, absDegree, 1)

\* ---------------------------------------------------------------------
\* Aspect detection
\* ---------------------------------------------------------------------
\* let diff = Math.abs(a - b); if (diff > 180) diff = 360 - diff;
separation(a, b) ==
  LET diff == Abs(a - b)
  IN  IF diff > Deg(180) THEN Deg(360) - diff ELSE diff

\* a comparison that leaves the edge of the window out
aspectMatchesStrict(diff, asp) ==
  Abs(diff - Deg(asp.angle)) < Deg(asp.orb)

aspectMatches(diff, asp) ==
  Abs(diff - Deg(asp.angle)) <= Deg(asp.orb)

\* the inner loop over aspectTypes for one pair, from entry k on
RECURSIVE pairAspects(_, _, _, _)
pairAspects(a, b, between, k) ==
  IF k > Len(aspectTypes) THEN << >>
  ELSE LET asp  == aspectTypes[k]
           diff == separation(a, b)
           rest == pairAspects(a, b, between, k + 1)
       IN  IF aspectMatches(diff, asp)
           THEN << [type    |-> asp.type,
                    between |-> between,
                    orb     |-> toFixed2(Abs(diff - Deg(asp.angle)))] >> \o rest
           ELSE rest

\* one (i, j) iteration: if (a == null || b == null) continue;
aspectsOfPair(a, b, between) ==
  IF a = NoLon \/ b = NoLon THEN << >>
  ELSE pairAspects(a, b, between, 1)

\* getAspects(positions): positions is the sequence of the object's
\* entries [key, absDegree] in insertion order; loops i < j
RECURSIVE getAspectsFrom(_, _, _)
getAspectsFrom(positions, i, j) ==
  IF i > Len(positions) THEN << >>
  ELSE IF j > Len(positions) THEN getAspectsFrom(positions, i + 1, i + 2)
  ELSE aspectsOfPair(positions[i].absDegree, positions[j].absDegree,
                     << positions[i].key, positions[j].key >>)
       \o getAspectsFrom(positions, i, j + 1)

getAspects(positions) == getAspectsFrom(positions, 1, 2)

\* aspects_to_natal: for (nat in natalAbs) for (trn in transitAbs)
RECURSIVE crossAspectsFrom(_, _, _, _)
crossAspectsFrom(natalAbs, transitAbs, i, j) ==
  IF i > Len(natalAbs) THEN << >>
  ELSE IF j > Len(transitAbs) THEN crossAspectsFrom(natalAbs, transitAbs, i + 1, 1)
  ELSE aspectsOfPair(natalAbs[i].absDegree, transitAbs[j].absDegree,
                     << << "Natal", natalAbs[i].key >>,
                        << "Transit", transitAbs[j].key >> >>)
       \o crossAspectsFrom(natalAbs, transitAbs, i, j + 1)

crossAspects(natalAbs, transitAbs) == crossAspectsFrom(natalAbs, transitAbs, 1, 1)

\* ---------------------------------------------------------------------
\* parseDateTime
\* ---------------------------------------------------------------------
\* Strings are sequences of one-character strings.  An hour value is the
\* exact fraction << num, den >>.
DigitChars == {"0", "1", "2", "3", "4", "5", "6", "7", "8", "9"}

DigitVal(c) ==
  ("0" :> 0 @@ "1" :> 1 @@ "2" :> 2 @@ "3" :> 3 @@ "4" :> 4 @@
   "5" :> 5 @@ "6" :> 6 @@ "7" :> 7 @@ "8" :> 8 @@ "9" :> 9)[c]

RECURSIVE Pow10(_)
Pow10(k) == IF k = 0 THEN 1 ELSE 10 * Pow10(k - 1)

\* Number(s) for a string of decimal digits
RECURSIVE NumberOf(_)
NumberOf(s) ==
  IF Len(s) = 0 THEN 0
  ELSE 10 * NumberOf(SubSeq(s, 1, Len(s) - 1)) + DigitVal(s[Len(s)])

\* s.split(sep): the pieces between the separators
RECURSIVE splitFrom(_, _, _, _)
splitFrom(s, sep, p, cur) ==
  IF p > Len(s) THEN << cur >>
  ELSE IF s[p] = sep THEN << cur >> \o splitFrom(s, sep, p + 1, << >>)
  ELSE splitFrom(s, sep, p + 1, Append(cur, s[p]))

split(s, sep) == splitFrom(s, sep, 1, << >>)

\* the length of the run of digits of s that starts at index p
RECURSIVE digitRun(_, _)
digitRun(s, p) ==
  IF p > Len(s) \/ p < 1 THEN 0
  ELSE IF s[p] \in DigitChars THEN 1 + digitRun(s, p + 1)
  ELSE 0

\* /^[+-]\d{1,2}:\d{2}$/
matchesOffsetLoose(s) ==
  \/ /\ Len(s) = 6
     /\ s[1] \in {"+", "-"}
     /\ s[2] \in DigitChars /\ s[3] \in DigitChars
     /\ s[4] = ":"
     /\ s[5] \in DigitChars /\ s[6] \in DigitChars
  \/ /\ Len(s) = 5
     /\ s[1] \in {"+", "-"}
     /\ s[2] \in DigitChars
     /\ s[3] = ":"
     /\ s[4] \in DigitChars /\ s[5] \in DigitChars

\* /^[+-]\d{2}:\d{2}$/.test(timezone)
matchesOffset(s) ==
  /\ Len(s) = 6
  /\ s[1] \in {"+", "-"}
  /\ s[2] \in DigitChars /\ s[3] \in DigitChars
  /\ s[4] = ":"
  /\ s[5] \in DigitChars /\ s[6] \in DigitChars

\* /^[+-]?\d+(\.\d+)?$/.test(timezone)
matchesDecimal(s) ==
  LET p0 == IF Len(s) > 0 /\ s[1] \in {"+", "-"} THEN 2 ELSE 1
      n1 == digitRun(s, p0)
      p1 == p0 + n1
      n2 == digitRun(s, p1 + 1)
  IN  /\ n1 >= 1
      /\ \/ p1 = Len(s) + 1
         \/ /\ p1 <= Len(s)
            /\ s[p1] = "."
            /\ n2 >= 1
            /\ p1 + 1 + n2 = Len(s) + 1

\* parseFloat(s) of a string that matchesDecimal, in hours
parseFloat(s) ==
  LET neg  == s[1] = "-"
      p0   == IF s[1] \in {"+", "-"} THEN 2 ELSE 1
      n1   == digitRun(s, p0)
      int  == SubSeq(s, p0, p0 + n1 - 1)
      frac == SubSeq(s, p0 + n1 + 1, Len(s))
      k    == Len(frac)
      mag  == NumberOf(int) * Pow10(k) + NumberOf(frac)
  IN  << (IF neg THEN 0 - mag ELSE mag) * 60, 60 * Pow10(k) >>

\* A timezone value is [t, s, n]: t is its typeof ("string", "number",
\* "undefined", "object", "boolean"), s its characters when a string, n its
\* value in sixtieths of an hour when a number.
tzOffsetOf(timezone) ==
  IF timezone.t = "string"
  THEN IF timezone.s = << "Z" >> THEN << 0, 60 >>
       ELSE IF matchesOffset(timezone.s)
       THEN LET sign == IF timezone.s[1] = "-" THEN 0 - 1 ELSE 1
                hm   == split(SubSeq(timezone.s, 2, Len(timezone.s)), ":")
                h    == NumberOf(hm[1])
                m    == NumberOf(hm[2])
            IN  << sign * (h * 60 + m), 60 >>
       ELSE IF matchesDecimal(timezone.s) THEN parseFloat(timezone.s)
       ELSE << 0, 60 >>
  ELSE IF timezone.t = "number" THEN << timezone.n, 60 >>
  ELSE << 0, 60 >>

\* const hour = hh + mm / 60 - offset
parseDateTime(date, time, timezone) ==
  LET ymd    == split(date, "-")
      hhmm   == split(time, ":")
      hh     == NumberOf(hhmm[1])
      mm     == NumberOf(hhmm[2])
      offset == tzOffsetOf(timezone)
      scale  == offset[2] \div 60
  IN  [year  |-> NumberOf(ymd[1]),
       month |-> NumberOf(ymd[2]),
       day   |-> NumberOf(ymd[3]),
       hour  |-> << (hh * 60 + mm) * scale - offset[1], offset[2] >>]

\* parseDateTime calls date.split and time.split before anything else:
\* a date or time that is not a string raises a TypeError
parseThrows(date, time) == date # "str" \/ time # "str"

\* ---------------------------------------------------------------------
\* Bounds of the model
\* ---------------------------------------------------------------------
\* how many of the bodies of PLANETS a request looks up
NumBodies == 2

PLANETS ==
  << "Sun", "Moon", "Mercury", "Venus", "Mars", "Jupiter",
     "Saturn", "Uranus", "Neptune", "Pluto", "Chiron", "North Node" >>

\* planet.name.replace('North Node', 'NorthNode')
planetKey(name) == IF name = "North Node" THEN "NorthNode" ELSE name

\* longitudes the body lookup may deliver; NoLon is a result object that
\* carries an error and no longitude
LonChoices == { Deg(10), Deg(100), NoLon }

\* cusps[0] = 20, ..., cusps[11] = 350: house 12 wraps past 0
CuspsWrap12 == [h \in 1..12 |-> Deg(20) + (h - 1) * Deg(30)]
\* cusps[0] = 200, ..., cusps[5] = 350, cusps[6] = 20: house 6 wraps
CuspsWrap6 == [h \in 1..12 |-> (Deg(200) + (h - 1) * Deg(30)) % Deg(360)]

CuspSamples == { CuspsWrap12, CuspsWrap6 }

\* what swe_houses hands its callback: (err, result)
NoData == [kind |-> "none", cusps |-> NoCusps]
HouseOutcomes ==
  { [err |-> NoData, result |-> NoData],
    [err |-> [kind |-> "msg", cusps |-> NoCusps], result |-> NoData] }
  \cup { [err |-> NoData, result |-> [kind |-> "data", cusps |-> c]] : c \in CuspSamples }
  \cup { [err |-> [kind |-> "msg", cusps |-> NoCusps],
          result |-> [kind |-> "data", cusps |-> c]] : c \in CuspSamples }
  \cup { [err |-> [kind |-> "data", cusps |-> c], result |-> NoData] : c \in CuspSamples }

\* ---------------------------------------------------------------------
\* State
\* ---------------------------------------------------------------------
VARIABLES
  variant,          \* "structured" (first listing) or "flat" (second listing)
  req,              \* the request body
  pc,               \* where the handler is suspended
  idx,              \* index into PLANETS of the loop the handler is in
  calls,            \* every ephemeris lookup issued, in order
  pending,          \* indexes into calls whose callback has not fired
  inbox,            \* what the last callback resolved its promise with
  ephNatal,         \* longitudes the ephemeris has for the natal moment
  ephTransit,       \* longitudes the ephemeris has for the transit moment
  ephHouses,        \* what swe_houses called back with, per house query
  houses,           \* let houses
  natalPositions,   \* natalPositions / positions
  natalAbs,         \* natalAbs
  natalAspects,     \* natalAspects / aspects
  transitPositions, \* transitPositions / transits
  transitAbs,       \* transitAbs
  responses,        \* what res.json was called with, in order
  arg,              \* argument of a direct call of one function
  ret,              \* its result
  called            \* whether the call has been made

hvars == << variant, req, pc, idx, calls, pending, inbox, ephNatal, ephTransit,
            ephHouses,
            houses, natalPositions, natalAbs, natalAspects,
            transitPositions, transitAbs, responses >>
fvars == << arg, ret, called >>
vars == << hvars, fvars >>

\* ---------------------------------------------------------------------
\* getHousesWithError
\* ---------------------------------------------------------------------
NullHouses ==
  [isNull |-> TRUE, cusps |-> NoCusps, warning |-> FALSE, error |-> FALSE,
   detailHouse |-> NoCusps]

\* structured listing: const data = result || err; cusps: data?.cusps || data?.house
getHousesWithErrorStructured(o) ==
  LET data == IF o.result.kind # "none" THEN o.result ELSE o.err
  IN  [isNull      |-> FALSE,
       cusps       |-> data.cusps,
       warning     |-> o.err.kind # "none" /\ o.result.kind # "none",
       error       |-> FALSE,
       detailHouse |-> NoCusps]

\* flat listing
getHousesWithErrorFlat(o) ==
  IF o.result.kind # "none" /\ o.result.cusps # NoCusps
  THEN [isNull |-> FALSE, cusps |-> o.result.cusps, warning |-> o.err.kind # "none",
        error |-> FALSE, detailHouse |-> NoCusps]
  ELSE IF o.err.kind # "none"
  THEN [isNull |-> FALSE, cusps |-> NoCusps, warning |-> FALSE,
        error |-> TRUE, detailHouse |-> o.err.cusps]
  ELSE NullHouses

getHousesWithError(v, o) ==
  IF v = "structured" THEN getHousesWithErrorStructured(o)
  ELSE getHousesWithErrorFlat(o)

\* getAllPositions: cusps = housesData.cusps, else housesData.detail.house
cuspsOfHousesData(h) ==
  IF h.isNull THEN NoCusps
  ELSE IF h.cusps # NoCusps THEN h.cusps
  ELSE h.detailHouse

\* structured listing: if (houses && houses.cusps)
cuspsOfHouses(h) == IF h.isNull THEN NoCusps ELSE h.cusps

natalCusps(v, h) ==
  IF v = "structured" THEN cuspsOfHouses(h) ELSE cuspsOfHousesData(h)

\* the cusps the transit pass scans: the structured listing scans
\* houses.cusps; getTransits calls getAllPositions(jdTransit) with no
\* housesData
transitCusps(v, h) ==
  IF v = "structured" THEN cuspsOfHouses(h) ELSE NoCusps

\* ---------------------------------------------------------------------
\* One iteration of a position loop
\* ---------------------------------------------------------------------
\* structured: natalPositions[key] = { sign, degree, house, retrograde }
\* flat: positions[planet.name] = { sign, degree, house, absDegree }
positionEntry(v, i, absDegree, cusps) ==
  [key       |-> IF v = "structured" THEN planetKey(PLANETS[i]) ELSE PLANETS[i],
   sign      |-> getSign(absDegree),
   degree    |-> getDegreeInSign(absDegree),
   house     |-> houseOf(cusps, absDegree),
   absDegree |-> IF v = "structured" THEN NoLon ELSE absDegree]

absEntry(i, absDegree) ==
  [key |-> planetKey(PLANETS[i]), absDegree |-> absDegree]

\* for (const k in positions) delete positions[k].absDegree
RECURSIVE deleteAbsDegree(_)
deleteAbsDegree(ps) ==
  IF Len(ps) = 0 THEN << >>
  ELSE << [ps[1] EXCEPT !.absDegree = NoLon] >> \o deleteAbsDegree(Tail(ps))

\* houses.cusps.map(x => +x.toFixed(2))
RECURSIVE mapToFixed2(_)
mapToFixed2(cs) ==
  IF Len(cs) = 0 THEN << >>
  ELSE << toFixed2(cs[1]) >> \o mapToFixed2(Tail(cs))

\* ---------------------------------------------------------------------
\* The request handler, app.post('/natal-chart')
\* ---------------------------------------------------------------------
\* A request field is "str" (a string), "nonstr" (a truthy value that is
\* no string) or "absent" (undefined, null, "").
Requests ==
  [date  : {"str", "absent"},
   time  : {"str", "absent"},
   loc   : BOOLEAN,
   tDate : {"str", "nonstr", "absent"},
   tTime : {"str", "nonstr", "absent"}]

EmptyInbox == [present |-> FALSE, lon |-> NoLon, hres |-> [err |-> NoData, result |-> NoData]]

NoTransit == [present |-> FALSE, planets |-> << >>, aspects_to_natal |-> << >>,
              hasAspects |-> FALSE]

\* res.status(500).json({ error: e.message })
errorResponse ==
  [status |-> 500, planets |-> << >>, aspects |-> << >>, houses |-> NullHouses,
   transit |-> NoTransit]

\* structured: natal_chart.houses is housesArr; flat: houses is the object
\* getHousesWithError resolved with
responseHouses(v, h) ==
  IF v = "structured"
  THEN [isNull      |-> cuspsOfHouses(h) = NoCusps,
        cusps       |-> mapToFixed2(cuspsOfHouses(h)),
        warning     |-> FALSE,
        error       |-> FALSE,
        detailHouse |-> NoCusps]
  ELSE h

\* res.json(response) / res.json(resultObj)
successResponse(v, planets, aspects, h, transit) ==
  [status  |-> 200,
   planets |-> IF v = "structured" THEN planets ELSE deleteAbsDegree(planets),
   aspects |-> aspects,
   houses  |-> responseHouses(v, h),
   transit |-> transit]

houseCall == [kind |-> "house", moment |-> "natal", body |-> 0]
bodyCall(m, i) == [kind |-> "body", moment |-> m, body |-> i]

\* the handler issues a lookup and suspends on its promise
Issue(call, nextpc, i) ==
  /\ calls' = Append(calls, call)
  /\ pending' = pending \cup {Len(calls) + 1}
  /\ pc' = nextpc
  /\ idx' = i
  /\ responses' = responses

\* the handler sends a response and returns
Respond(r) ==
  /\ responses' = Append(responses, r)
  /\ pc' = "done"
  /\ idx' = 0
  /\ calls' = calls
  /\ pending' = pending

\* a handler that does not await the promise it suspended on
resumableAlways(p) == TRUE

\* await: the handler continues once the awaited promise is resolved
resumable(p) == p = {}

\* if (transit_date || transit_time)
transitRequestedEither(r) == r.tDate # "absent" \/ r.tTime # "absent"

\* structured: if (transit_chart && transit_chart.date && transit_chart.time)
\* flat: if (transit_date && transit_time)
transitRequested(r) == r.tDate # "absent" /\ r.tTime # "absent"

\* from the transit guard on, with the natal results at hand
TransitOrRespond(planets, aspects) ==
  IF transitRequested(req)
  THEN IF parseThrows(req.tDate, req.tTime)
       THEN Respond(errorResponse)
       ELSE Issue(bodyCall("transit", 1), "await_transit", 1)
  ELSE Respond(successResponse(variant, planets, aspects, houses, NoTransit))

Init ==
  /\ variant \in {"structured", "flat"}
  /\ req \in Requests
  /\ pc = "start"
  /\ idx = 0
  /\ calls = << >>
  /\ pending = {}
  /\ inbox = EmptyInbox
  /\ ephNatal = << >>
  /\ ephTransit = << >>
  /\ ephHouses = << >>
  /\ houses = NullHouses
  /\ natalPositions = << >>
  /\ natalAbs = << >>
  /\ natalAspects = << >>
  /\ transitPositions = << >>
  /\ transitAbs = << >>
  /\ responses = << >>
  /\ arg = << >>
  /\ ret = << >>
  /\ called = FALSE

\* the request arrives: parseDateTime, toJulianDay, the location test
Receive ==
  /\ pc = "start"
  /\ IF parseThrows(req.date, req.time)
     THEN Respond(errorResponse)
     ELSE IF req.loc
          THEN Issue(houseCall, "await_house", 0)
          ELSE Issue(bodyCall("natal", 1), "await_natal", 1)
  /\ UNCHANGED << variant, req, inbox, ephNatal, ephTransit, ephHouses, houses, natalPositions,
                  natalAbs, natalAspects, transitPositions, transitAbs, fvars >>

\* a swisseph callback fires and resolves the promise of its lookup; the
\* ephemeris is a function of (moment, body)
Deliver ==
  /\ \E c \in pending :
       /\ pending' = pending \ {c}
       /\ IF calls[c].kind = "house"
          THEN /\ \E o \in HouseOutcomes :
                    /\ inbox' = [present |-> TRUE, lon |-> NoLon, hres |-> o]
                    /\ ephHouses' = Append(ephHouses, o)
               /\ UNCHANGED << ephNatal, ephTransit >>
          ELSE LET eph == IF calls[c].moment = "natal" THEN ephNatal ELSE ephTransit
                   b   == calls[c].body
               IN  IF b <= Len(eph)
                   THEN /\ inbox' = [present |-> TRUE, lon |-> eph[b], hres |-> EmptyInbox.hres]
                        /\ UNCHANGED << ephNatal, ephTransit, ephHouses >>
                   ELSE \E l \in LonChoices :
                          /\ UNCHANGED ephHouses
                          /\ inbox' = [present |-> TRUE, lon |-> l, hres |-> EmptyInbox.hres]
                          /\ IF calls[c].moment = "natal"
                             THEN ephNatal' = Append(ephNatal, l) /\ ephTransit' = ephTransit
                             ELSE ephTransit' = Append(ephTransit, l) /\ ephNatal' = ephNatal
  /\ UNCHANGED << variant, req, pc, idx, calls, houses, natalPositions, natalAbs,
                  natalAspects, transitPositions, transitAbs, responses, fvars >>

\* houses = await getHousesWithError(...), then the first natal lookup
ResumeHouse ==
  /\ pc = "await_house"
  /\ resumable(pending)
  /\ houses' = IF inbox.present THEN getHousesWithError(variant, inbox.hres) ELSE NullHouses
  /\ inbox' = EmptyInbox
  /\ Issue(bodyCall("natal", 1), "await_natal", 1)
  /\ UNCHANGED << variant, req, ephNatal, ephTransit, ephHouses, natalPositions, natalAbs,
                  natalAspects, transitPositions, transitAbs, fvars >>

\* one iteration of the natal position loop; after the last one the
\* structured listing starts the natalAbs loop and the flat listing goes on
\* to getAspects and the transit guard
ResumeNatal ==
  /\ pc = "await_natal"
  /\ resumable(pending)
  /\ inbox' = EmptyInbox
  /\ LET np == Append(natalPositions,
                      positionEntry(variant, idx, inbox.lon, natalCusps(variant, houses)))
         last == idx >= NumBodies
         asp  == IF last /\ variant = "flat" THEN getAspects(np) ELSE natalAspects
     IN  IF ~inbox.present
         THEN Respond(errorResponse) /\ UNCHANGED << natalPositions, natalAspects >>
         ELSE /\ natalPositions' = np
              /\ natalAspects' = asp
              /\ IF ~last THEN Issue(bodyCall("natal", idx + 1), "await_natal", idx + 1)
                 ELSE IF variant = "structured"
                 THEN Issue(bodyCall("natal", 1), "await_natalAbs", 1)
                 ELSE TransitOrRespond(np, asp)
  /\ UNCHANGED << variant, req, ephNatal, ephTransit, ephHouses, houses, natalAbs,
                  transitPositions, transitAbs, fvars >>

\* structured listing: one iteration of the natalAbs loop; after the last
\* one getAspects(natalAbs) and the transit guard
ResumeNatalAbs ==
  /\ pc = "await_natalAbs"
  /\ resumable(pending)
  /\ inbox' = EmptyInbox
  /\ LET na == Append(natalAbs, absEntry(idx, inbox.lon))
         last == idx >= NumBodies
         asp  == IF last THEN getAspects(na) ELSE natalAspects
     IN  IF ~inbox.present
         THEN Respond(errorResponse) /\ UNCHANGED << natalAbs, natalAspects >>
         ELSE /\ natalAbs' = na
              /\ natalAspects' = asp
              /\ IF ~last THEN Issue(bodyCall("natal", idx + 1), "await_natalAbs", idx + 1)
                 ELSE TransitOrRespond(natalPositions, asp)
  /\ UNCHANGED << variant, req, ephNatal, ephTransit, ephHouses, houses, natalPositions,
                  transitPositions, transitAbs, fvars >>

\* one iteration of the transit position loop; after the last one the
\* structured listing starts the transitAbs loop and the flat listing
\* responds
ResumeTransit ==
  /\ pc = "await_transit"
  /\ resumable(pending)
  /\ inbox' = EmptyInbox
  /\ LET tp == Append(transitPositions,
                      positionEntry(variant, idx, inbox.lon, transitCusps(variant, houses)))
         last == idx >= NumBodies
     IN  IF ~inbox.present
         THEN Respond(errorResponse) /\ UNCHANGED transitPositions
         ELSE /\ transitPositions' = tp
              /\ IF ~last THEN Issue(bodyCall("transit", idx + 1), "await_transit", idx + 1)
                 ELSE IF variant = "structured"
                 THEN Issue(bodyCall("transit", 1), "await_transitAbs", 1)
                 ELSE Respond(successResponse(variant, natalPositions, natalAspects, houses,
                                [present          |-> TRUE,
                                 planets          |-> deleteAbsDegree(tp),
                                 aspects_to_natal |-> << >>,
                                 hasAspects       |-> FALSE]))
  /\ UNCHANGED << variant, req, ephNatal, ephTransit, ephHouses, houses, natalPositions,
                  natalAbs, natalAspects, transitAbs, fvars >>

\* structured listing: one iteration of the transitAbs loop; after the
\* last one aspects_to_natal, transitResult and the response
ResumeTransitAbs ==
  /\ pc = "await_transitAbs"
  /\ resumable(pending)
  /\ inbox' = EmptyInbox
  /\ LET ta == Append(transitAbs, absEntry(idx, inbox.lon))
         last == idx >= NumBodies
     IN  IF ~inbox.present
         THEN Respond(errorResponse) /\ UNCHANGED transitAbs
         ELSE /\ transitAbs' = ta
              /\ IF ~last THEN Issue(bodyCall("transit", idx + 1), "await_transitAbs", idx + 1)
                 ELSE Respond(successResponse(variant, natalPositions, natalAspects, houses,
                                [present          |-> TRUE,
                                 planets          |-> transitPositions,
                                 aspects_to_natal |-> crossAspects(natalAbs, ta),
                                 hasAspects       |-> TRUE]))
  /\ UNCHANGED << variant, req, ephNatal, ephTransit, ephHouses, houses, natalPositions,
                  natalAbs, natalAspects, transitPositions, fvars >>

Next ==
  \/ Receive
  \/ Deliver
  \/ ResumeHouse
  \/ ResumeNatal
  \/ ResumeNatalAbs
  \/ ResumeTransit
  \/ ResumeTransitAbs

Spec == Init /\ [][Next]_vars

\* swisseph invokes every callback it was given, and the event loop runs
\* every continuation whose promise is resolved
FairSpec == Spec /\ WF_vars(Next)

\* ---------------------------------------------------------------------
\* Direct calls of the pure functions
\* ---------------------------------------------------------------------
\* no request is in flight
NoRequest ==
  /\ variant = "flat"
  /\ req = [date |-> "absent", time |-> "absent", loc |-> FALSE,
            tDate |-> "absent", tTime |-> "absent"]
  /\ pc = "off"
  /\ idx = 0
  /\ calls = << >>
  /\ pending = {}
  /\ inbox = EmptyInbox
  /\ ephNatal = << >>
  /\ ephTransit = << >>
  /\ ephHouses = << >>
  /\ houses = NullHouses
  /\ natalPositions = << >>
  /\ natalAbs = << >>
  /\ natalAspects = << >>
  /\ transitPositions = << >>
  /\ transitAbs = << >>
  /\ responses = << >>

\* --- getSign, getDegreeInSign ---------------------------------------
\* full turns added to a longitude
MaxTurns == 1
\* fixed-point steps looked at on either side of a sign boundary
SignWindow == 3

SignLons ==
  { s * Deg(30) + d :
      s \in 0..11,
      d \in (0..SignWindow) \cup {Deg(5)} \cup ((Deg(30) - 1 - SignWindow)..(Deg(30) - 1)) }

SignInit ==
  /\ NoRequest
  /\ arg \in [lon : SignLons, k : (0 - MaxTurns)..MaxTurns]
  /\ ret = [sign |-> "", degree |-> 0, shifted |-> ""]
  /\ called = FALSE

SignCall ==
  /\ ~called
  /\ called' = TRUE
  /\ ret' = [sign    |-> getSign(arg.lon),
             degree  |-> getDegreeInSign(arg.lon),
             shifted |-> getSign(arg.lon + arg.k * Deg(360))]
  /\ UNCHANGED << hvars, arg >>

SignSpec == SignInit /\ [][SignCall]_vars

\* --- the house scan ---------------------------------------------------
\* positions on the circle a cusp may take
CuspGrid == 13

CuspStep == Deg(360) \div CuspGrid

\* the strictly increasing sequences of n grid positions that are >= lo
RECURSIVE IncreasingSeqs(_, _)
IncreasingSeqs(n, lo) ==
  IF n = 0 THEN { << >> }
  ELSE UNION { { << g * CuspStep >> \o t : t \in IncreasingSeqs(n - 1, g + 1) } :
               g \in lo..(CuspGrid - n) }

Rotate(c, r) == [h \in 1..Len(c) |-> c[((h - 1 + r) % Len(c)) + 1]]

\* 12 cusps in [0,360) in circular increasing order
CuspInputs == { Rotate(c, r) : c \in IncreasingSeqs(12, 0), r \in 0..11 }

HouseLons ==
  { l \in { g * CuspStep + d : g \in 0..(CuspGrid - 1), d \in {0 - 1, 0, 1, CuspStep \div 2} } :
      l >= 0 /\ l < Deg(360) }
  \cup { Deg(360) - 1 }

HouseInit ==
  /\ NoRequest
  /\ arg \in [cusps : CuspInputs \cup {NoCusps}, lon : HouseLons]
  /\ ret = NoHouse
  /\ called = FALSE

HouseCall ==
  /\ ~called
  /\ called' = TRUE
  /\ ret' = houseOf(arg.cusps, arg.lon)
  /\ UNCHANGED << hvars, arg >>

HouseSpec == HouseInit /\ [][HouseCall]_vars

\* --- getAspects -------------------------------------------------------
\* entries of the positions object
AspectBodies == 3

AspectLons ==
  { Deg(0), Deg(8), Deg(8) + 1, Deg(10), Deg(54) - 1, Deg(66), Deg(100),
    Deg(120) + 1, Deg(180), Deg(270) + 2, Deg(352), NoLon }

AspectInit ==
  /\ NoRequest
  /\ \E f \in [1..AspectBodies -> AspectLons] :
       arg = [i \in 1..AspectBodies |-> [key |-> PLANETS[i], absDegree |-> f[i]]]
  /\ ret = << >>
  /\ called = FALSE

AspectCall ==
  /\ ~called
  /\ called' = TRUE
  /\ ret' = getAspects(arg)
  /\ UNCHANGED << hvars, arg >>

AspectSpec == AspectInit /\ [][AspectCall]_vars

\* --- one pair of longitudes, same-set and cross-set --------------------
\* how far around every window edge the separation is stepped unit by unit
EdgeWindow == 2

PairBases == { Deg(0), Deg(10), Deg(270) + 2, Deg(350) + 1 }

\* the edges angle - orb and angle + orb of every catalog entry, on both
\* sides of the circle
WindowEdges ==
  UNION { { Deg(aspectTypes[k].angle - aspectTypes[k].orb),
            Deg(aspectTypes[k].angle + aspectTypes[k].orb),
            Deg(360 - aspectTypes[k].angle + aspectTypes[k].orb),
            Deg(360 - aspectTypes[k].angle - aspectTypes[k].orb) } :
          k \in 1..Len(aspectTypes) }

\* every whole degree, and every unit within EdgeWindow of a window edge
PairSeps ==
  { Deg(d) : d \in 0..359 }
  \cup { e + u : e \in WindowEdges, u \in (0 - EdgeWindow)..EdgeWindow }

PairLons(a) == { JsRem(JsRem(a + d, Deg(360)) + Deg(360), Deg(360)) : d \in PairSeps }

PairInit ==
  /\ NoRequest
  /\ \E a \in PairBases : \E b \in PairLons(a) \cup {NoLon} :
       arg = [a |-> a, b |-> b]
  /\ ret = << >>
  /\ called = FALSE

\* getAspects over the two bodies, and the aspects_to_natal loops with the
\* two bodies as natal set and, in the other order, as transit set
PairCall ==
  /\ ~called
  /\ called' = TRUE
  /\ ret' = [same  |-> getAspects(<< [key |-> PLANETS[1], absDegree |-> arg.a],
                                    [key |-> PLANETS[2], absDegree |-> arg.b] >>),
             cross |-> crossAspects(<< [key |-> PLANETS[1], absDegree |-> arg.a],
                                       [key |-> PLANETS[2], absDegree |-> arg.b] >>,
                                    << [key |-> PLANETS[1], absDegree |-> arg.b],
                                       [key |-> PLANETS[2], absDegree |-> arg.a] >>)]
  /\ UNCHANGED << hvars, arg >>

PairSpec == PairInit /\ [][PairCall]_vars

\* --- parseDateTime ----------------------------------------------------
\* longest timezone string enumerated in full
MaxTzLen == 6

TzAlphabet == {"+", "-", "5", ":", ".", "Z"}

TzStrings == UNION { [1..n -> TzAlphabet] : n \in 0..MaxTzLen }

SampleDigits == {"0", "3", "5"}

\* every "+hh:mm" / "-hh:mm" over the sample digits
OffsetSamples ==
  { << sg, d1, d2, ":", d3, d4 >> :
      sg \in {"+", "-"}, d1 \in SampleDigits, d2 \in SampleDigits,
      d3 \in SampleDigits, d4 \in SampleDigits }

TzInputs ==
  { [t |-> "string", s |-> z, n |-> 0] : z \in TzStrings \cup OffsetSamples }
  \cup { [t |-> "number", s |-> << >>, n |-> m] : m \in {0 - 330, 0, 60, 345} }
  \cup { [t |-> k, s |-> << >>, n |-> 0] : k \in {"undefined", "object", "boolean"} }

TimeInputs == { << "1", "0", ":", "0", "0" >>, << "2", "3", ":", "4", "5" >> }

DateInputs == { << "2", "0", "2", "4", "-", "0", "1", "-", "1", "5" >> }

TimeInit ==
  /\ NoRequest
  /\ arg \in [date : DateInputs, time : TimeInputs, timezone : TzInputs]
  /\ ret = [year |-> 0, month |-> 0, day |-> 0, hour |-> << 0, 60 >>]
  /\ called = FALSE

TimeCall ==
  /\ ~called
  /\ called' = TRUE
  /\ ret' = parseDateTime(arg.date, arg.time, arg.timezone)
  /\ UNCHANGED << hvars, arg >>

TimeSpec == TimeInit /\ [][TimeCall]_vars

\* =====================================================================
\* Properties
\* =====================================================================
Min(a, b) == IF a < b THEN a ELSE b

Range(f) == { f[i] : i \in DOMAIN f }

\* the wrap-aware containment rule of the data model, for house h
InHouse(c, h, L) ==
  LET start == c[h]
      end   == c[(h % 12) + 1]
  IN  IF start < end THEN start <= L /\ L < end
      ELSE L >= start \/ L < end

\* 12 cusps in [0,360), exactly one interval wrapping past 0
CircularIncreasing(c) ==
  /\ Len(c) = 12
  /\ \A h \in 1..12 : c[h] >= 0 /\ c[h] < Deg(360)
  /\ Cardinality({ h \in 1..12 : c[h] >= c[(h % 12) + 1] }) = 1

\* C1: with 12 cusps in circular increasing order, every longitude in
\* [0,360) lies in exactly one house by the wrap-aware rule and the scan
\* returns that house; with no cusps the house is null.
C1_HouseTotalUnique ==
  called =>
    IF arg.cusps = NoCusps THEN ret = NoHouse
    ELSE CircularIncreasing(arg.cusps) =>
           /\ Cardinality({ h \in 1..12 : InHouse(arg.cusps, h, arg.lon) }) = 1
           /\ ret \in 1..12
           /\ InHouse(arg.cusps, ret, arg.lon)

\* a longitude past the last cusp of a wrapping house 12 resolved to 12
C1_Witness ==
  /\ called
  /\ arg.cusps # NoCusps
  /\ CircularIncreasing(arg.cusps)
  /\ arg.cusps[12] > arg.cusps[1]
  /\ arg.lon >= arg.cusps[12]
  /\ ret = 12

\* ---------------------------------------------------------------------
\* circular separation, min(|a-b|, 360-|a-b|)
Sep(a, b) == Min(Abs(a - b), Deg(360) - Abs(a - b))

\* |sep - angle| <= orb for catalog entry T
Within(a, b, T) == Abs(Sep(a, b) - Deg(T.angle)) <= Deg(T.orb)

Catalog ==
  { [type |-> "Conjunction", angle |-> 0,   orb |-> 8],
    [type |-> "Opposition",  angle |-> 180, orb |-> 8],
    [type |-> "Trine",       angle |-> 120, orb |-> 8],
    [type |-> "Square",      angle |-> 90,  orb |-> 8],
    [type |-> "Sextile",     angle |-> 60,  orb |-> 6] }

\* how many matches of out are of type ty between the pair bt
Matches(out, bt, ty) ==
  Cardinality({ n \in 1..Len(out) : out[n].between = bt /\ out[n].type = ty })

\* getAspects emits, for every pair i < j with both longitudes and every
\* catalog type, one match if |sep - angle| <= orb and none otherwise,
\* and nothing else
SameSetSoundComplete(pos, out) ==
  /\ \A i \in 1..Len(pos), j \in 1..Len(pos), T \in Catalog :
       Matches(out, << pos[i].key, pos[j].key >>, T.type) =
         IF /\ i < j
            /\ pos[i].absDegree # NoLon
            /\ pos[j].absDegree # NoLon
            /\ Within(pos[i].absDegree, pos[j].absDegree, T)
         THEN 1 ELSE 0
  /\ \A n \in 1..Len(out) :
       \E i \in 1..Len(pos), j \in 1..Len(pos), T \in Catalog :
         /\ i < j
         /\ out[n].between = << pos[i].key, pos[j].key >>
         /\ out[n].type = T.type

\* the exact |sep - angle| of match m, in Scale units
ExactOrb(pos, m) ==
  LET i == CHOOSE i \in 1..Len(pos) : pos[i].key = m.between[1]
      j == CHOOSE j \in 1..Len(pos) : pos[j].key = m.between[2]
      T == CHOOSE T \in Catalog : T.type = m.type
  IN  Abs(Sep(pos[i].absDegree, pos[j].absDegree) - Deg(T.angle))

\* C2 as stated: same-set detection is sound and complete, each pair is
\* visited once, missing longitudes give no match, and the reported orb
\* equals |sep - angle|.
C2_OrbExact ==
  called =>
    /\ SameSetSoundComplete(arg, ret)
    /\ \A n \in 1..Len(ret) : ret[n].orb * Scale = 100 * ExactOrb(arg, ret[n])

\* C2 amended: same-set detection is sound and complete, each pair is
\* visited once, missing longitudes give no match, and the reported orb
\* is |sep - angle| rounded to the nearest hundredth of a degree.
C2_SameSetAspects ==
  called =>
    /\ SameSetSoundComplete(arg, ret)
    /\ \A n \in 1..Len(ret) :
         2 * Abs(ret[n].orb * Scale - 100 * ExactOrb(arg, ret[n])) <= Scale

\* a match at the edge of its window, a body without longitude, and a
\* match whose exact orb is no whole number of hundredths
C2_Witness ==
  /\ called
  /\ \E i \in 1..Len(arg) : arg[i].absDegree = NoLon
  /\ \E n \in 1..Len(ret) :
       /\ ret[n].type = "Trine"
       /\ ExactOrb(arg, ret[n]) = 1
       /\ ret[n].orb = 0

\* ---------------------------------------------------------------------
\* The request handler
\* ---------------------------------------------------------------------
Sent == Len(responses) >= 1

NatalInputsValid == req.date = "str" /\ req.time = "str"

BothTransitFields == req.tDate # "absent" /\ req.tTime # "absent"

TransitCalls == { c \in 1..Len(calls) : calls[c].moment = "transit" }

HouseCalls == { c \in 1..Len(calls) : calls[c].kind = "house" }

NatalLabel(i) == << "Natal", planetKey(PLANETS[i]) >>
TransitLabel(j) == << "Transit", planetKey(PLANETS[j]) >>

\* out holds, for every natal body i, transit body j and catalog type,
\* one match labelled (Natal i, Transit j) if |sep - angle| <= orb and
\* none otherwise, and nothing else
CrossSoundComplete(nat, trn, out) ==
  /\ \A i \in 1..Len(nat), j \in 1..Len(trn), T \in Catalog :
       Matches(out, << NatalLabel(i), TransitLabel(j) >>, T.type) =
         IF nat[i] # NoLon /\ trn[j] # NoLon /\ Within(nat[i], trn[j], T)
         THEN 1 ELSE 0
  /\ \A n \in 1..Len(out) :
       \E i \in 1..Len(nat), j \in 1..Len(trn) :
         out[n].between = << NatalLabel(i), TransitLabel(j) >>

\* C3: whenever the transit pass runs, cross-set detection runs against
\* the natal longitudes and emits a (natal, transit) match for a body
\* pair and type iff |sep - angle| <= orb, and no other match.
C3_CrossAspectsWheneverTransit ==
  \A n \in 1..Len(responses) :
    (responses[n].status = 200 /\ responses[n].transit.present) =>
      /\ responses[n].transit.hasAspects
      /\ CrossSoundComplete(ephNatal, ephTransit, responses[n].transit.aspects_to_natal)

\* the structured listing does what C3 says
CrossAspectsStructured ==
  variant = "structured" => C3_CrossAspectsWheneverTransit

\* the cusps the natal bodies were placed with
NatalCuspsUsed == natalCusps(variant, houses)

\* the house the wrap-aware rule gives L under cusps c
HouseByRule(c, L) == CHOOSE h \in 1..12 : InHouse(c, h, L)

\* C4: whenever natal cusps were obtained and a transit pass runs, every
\* transit body's house is the house the natal cusps give its transit
\* longitude, and no house-cusp lookup is issued for the transit moment.
C4_TransitHousesFromNatalCusps ==
  /\ Cardinality(HouseCalls) <= 1
  /\ HouseCalls \cap TransitCalls = {}
  /\ \A n \in 1..Len(responses) :
       ( /\ responses[n].status = 200
         /\ responses[n].transit.present
         /\ NatalCuspsUsed # NoCusps ) =>
         \A i \in 1..Len(responses[n].transit.planets) :
           ephTransit[i] # NoLon =>
             responses[n].transit.planets[i].house = HouseByRule(NatalCuspsUsed, ephTransit[i])

\* the structured listing does what C4 says
TransitHousesStructured ==
  variant = "structured" => C4_TransitHousesFromNatalCusps

\* C5 as stated: the transit output is non-null only if both a transit
\* date and a transit time were supplied; if either is missing the request
\* ends in a success response with no transit output, and no
\* transit-moment lookup is issued.
C5_NoTransitIsSuccess ==
  /\ ~BothTransitFields => TransitCalls = {}
  /\ \A n \in 1..Len(responses) :
       /\ responses[n].transit.present => BothTransitFields
       /\ ~BothTransitFields =>
            responses[n].status = 200 /\ ~responses[n].transit.present

\* C5 amended: the transit output is non-null only if both a transit date
\* and a transit time were supplied; if either is missing no
\* transit-moment lookup is issued and the response has no transit output,
\* and it is a success response provided the natal date and time parse.
C5_TransitOnlyWhenBoth ==
  /\ ~BothTransitFields => TransitCalls = {}
  /\ \A n \in 1..Len(responses) :
       /\ responses[n].transit.present => BothTransitFields
       /\ ~BothTransitFields => ~responses[n].transit.present
       /\ (~BothTransitFields /\ NatalInputsValid) => responses[n].status = 200

\* a request with a transit date and no transit time got its success
\* response
C5_Witness ==
  /\ Sent
  /\ req.tDate = "str"
  /\ req.tTime = "absent"
  /\ responses[1].status = 200
  /\ Len(responses[1].planets) = NumBodies
  /\ ~responses[1].transit.present

\* C6: for a request whose natal inputs are valid, a failure of the
\* transit pass still ends in a success response with the complete natal
\* result.
C6_TransitFailureKeepsNatal ==
  \A n \in 1..Len(responses) :
    NatalInputsValid =>
      /\ responses[n].status = 200
      /\ Len(responses[n].planets) = NumBodies

\* a failing transit body lookup does not fail the request
TransitLookupFailureKeepsNatal ==
  \A n \in 1..Len(responses) :
    (NatalInputsValid /\ ~parseThrows(req.tDate, req.tTime)) =>
      /\ responses[n].status = 200
      /\ Len(responses[n].planets) = NumBodies

\* every lookup the response rests on was issued before it was sent
LookupsIssued(r) ==
  /\ req.loc => HouseCalls # {}
  /\ \A i \in 1..NumBodies :
       \E c \in 1..Len(calls) : calls[c] = bodyCall("natal", i)
  /\ r.transit.present =>
       \A i \in 1..NumBodies :
         \E c \in 1..Len(calls) : calls[c] = bodyCall("transit", i)

ResponseAfterLookups ==
  /\ Len(responses) <= 1
  /\ Sent =>
       /\ pending = {}
       /\ pc = "done"
       /\ responses[1].status \in {200, 500}
       /\ responses[1].status = 200 => LookupsIssued(responses[1])

\* C10: the response is sent only after the house-cusp lookup (if a
\* location was supplied) and every issued body lookup have delivered, no
\* callback is pending when it is sent, and each request sends exactly one
\* response.
C10_ResponseIsBarrier ==
  /\ []ResponseAfterLookups
  /\ <>(Len(responses) = 1)

\* a success response of a request with location and transit, sent after
\* the house lookup and four lookups per body
C10_Witness ==
  /\ Sent
  /\ responses[1].status = 200
  /\ responses[1].transit.present
  /\ variant = "structured"
  /\ req.loc
  /\ Len(calls) = 1 + 4 * NumBodies
  /\ pending = {}

\* ---------------------------------------------------------------------
\* parseDateTime
\* ---------------------------------------------------------------------
RECURSIVE Gcd(_, _)
Gcd(a, b) == IF b = 0 THEN a ELSE Gcd(b, a % b)

\* a fraction << num, den >>, den > 0, in lowest terms
Reduced(q) ==
  LET g == Gcd(Abs(q[1]), q[2])
  IN  << q[1] \div g, q[2] \div g >>

IsDigits(q) == Len(q) >= 1 /\ \A i \in 1..Len(q) : q[i] \in DigitChars

\* the decimal value of a string of digits, most significant first
RECURSIVE ValueOf(_)
ValueOf(q) ==
  IF Len(q) = 0 THEN 0
  ELSE DigitVal(Head(q)) * Pow10(Len(q) - 1) + ValueOf(Tail(q))

\* "+hh:mm" / "-hh:mm"
IsOffsetForm(z) ==
  /\ Len(z) = 6
  /\ \E sg \in {"+", "-"} :
       z = << sg >> \o SubSeq(z, 2, 3) \o << ":" >> \o SubSeq(z, 5, 6)
  /\ IsDigits(SubSeq(z, 2, 3))
  /\ IsDigits(SubSeq(z, 5, 6))

Unsigned(z) == IF Len(z) >= 1 /\ z[1] \in {"+", "-"} THEN Tail(z) ELSE z

\* where the decimal point of an unsigned decimal-hour string is; 0 if it
\* has none
DotOf(b) ==
  IF \E p \in 1..Len(b) : b[p] = "." THEN CHOOSE p \in 1..Len(b) : b[p] = "." ELSE 0

\* a decimal-hour string: optional sign, digits, optionally "." and digits
IsDecimalForm(z) ==
  LET b == Unsigned(z)
  IN  \/ IsDigits(b)
      \/ \E p \in 1..Len(b) :
           /\ b[p] = "."
           /\ IsDigits(SubSeq(b, 1, p - 1))
           /\ IsDigits(SubSeq(b, p + 1, Len(b)))

SignOf(z) == IF z[1] = "-" THEN 0 - 1 ELSE 1

\* the offset in hours the timezone forms stand for, as a fraction
OffsetOfForm(tz) ==
  IF tz.t = "number" THEN << tz.n, 60 >>
  ELSE IF tz.t # "string" THEN << 0, 1 >>
  ELSE IF tz.s = << "Z" >> THEN << 0, 1 >>
  ELSE IF IsOffsetForm(tz.s)
  THEN << SignOf(tz.s) * (60 * ValueOf(SubSeq(tz.s, 2, 3)) + ValueOf(SubSeq(tz.s, 5, 6))), 60 >>
  ELSE IF IsDecimalForm(tz.s)
  THEN LET b == Unsigned(tz.s)
           p == DotOf(b)
       IN  IF p = 0 THEN << SignOf(tz.s) * ValueOf(b), 1 >>
           ELSE << SignOf(tz.s) * (ValueOf(SubSeq(b, 1, p - 1)) * Pow10(Len(b) - p)
                                   + ValueOf(SubSeq(b, p + 1, Len(b)))),
                   Pow10(Len(b) - p) >>
  ELSE << 0, 1 >>

\* HH + MM/60 - offset for a time "HH:MM", as a fraction
HourOfForm(time, tz) ==
  LET off == OffsetOfForm(tz)
      hh  == ValueOf(SubSeq(time, 1, 2))
      mm  == ValueOf(SubSeq(time, 4, 5))
  IN  << (hh * 60 + mm) * off[2] - 60 * off[1], 60 * off[2] >>

\* C7: parseDateTime gives hour = HH + MM/60 - offset, with offset 0 for
\* "Z", sign*(hh + mm/60) for "+hh:mm"/"-hh:mm", the numeric value for a
\* decimal-hour string or a number, and 0 for every other timezone.
C7_HourIsLocalMinusOffset ==
  called => Reduced(ret.hour) = Reduced(HourOfForm(arg.time, arg.timezone))

\* local 10:00 with "+05:30" gave UT hour 4.50
C7_Witness ==
  /\ called
  /\ arg.time = << "1", "0", ":", "0", "0" >>
  /\ arg.timezone.t = "string"
  /\ arg.timezone.s = << "+", "0", "5", ":", "3", "0" >>
  /\ Reduced(ret.hour) = << 9, 2 >>

\* ---------------------------------------------------------------------
\* getSign, getDegreeInSign
\* ---------------------------------------------------------------------
SignIndex(name) == CHOOSE i \in 0..11 : SIGNS[i + 1] = name

\* C8: for every longitude in [0,360) the degree-in-sign rounded to 2
\* decimals is in [0,30), never 30.00, and sign*30 + degree-in-sign is
\* within 0.005 of the longitude.
C8_DegreeInSignBelow30 ==
  (called /\ arg.lon >= 0 /\ arg.lon < Deg(360)) =>
    /\ ret.degree >= 0
    /\ ret.degree < 3000
    /\ ret.sign \in Range(SIGNS)
    /\ 2 * Abs((SignIndex(ret.sign) * 3000 + ret.degree) * Scale - 100 * arg.lon) <= Scale

\* what does hold: the rounded degree-in-sign is in [0,30] and sign*30 +
\* degree-in-sign is within 0.005 of the longitude
DegreeInSignAtMost30 ==
  (called /\ arg.lon >= 0 /\ arg.lon < Deg(360)) =>
    /\ ret.degree >= 0
    /\ ret.degree <= 3000
    /\ ret.sign \in Range(SIGNS)
    /\ 2 * Abs((SignIndex(ret.sign) * 3000 + ret.degree) * Scale - 100 * arg.lon) <= Scale

\* C9: the sign of L is the sign of L + 360k for every integer k, it is
\* always one of the 12 signs, and 95 degrees is in Cancer.
C9_SignPeriodic ==
  called =>
    /\ ret.sign \in Range(SIGNS)
    /\ ret.shifted = ret.sign
    /\ arg.lon = Deg(95) => ret.sign = "Cancer"

\* what does hold: a longitude in [0,360) has one of the 12 signs, and 95
\* degrees is in Cancer
SignDefinedInRange ==
  (called /\ arg.lon >= 0 /\ arg.lon < Deg(360)) =>
    /\ ret.sign \in Range(SIGNS)
    /\ arg.k = 0 => ret.shifted = ret.sign
    /\ arg.lon = Deg(95) => ret.sign = "Cancer"

\* ---------------------------------------------------------------------
\* A house-cusp query that reports an error
\* ---------------------------------------------------------------------
\* swe_houses called back with an error or warning
HouseError == ephHouses # << >> /\ ephHouses[1].err.kind # "none"

\* the cusps that came with it: in the result next to the error, or in
\* the error object itself
BestEffortCusps ==
  IF ephHouses[1].result.cusps # NoCusps
  THEN ephHouses[1].result.cusps
  ELSE ephHouses[1].err.cusps

\* the response tells the client about the error: a warning next to the
\* cusps, or an error object holding what swe_houses reported
CarriesWarning(r) == r.houses.warning \/ r.houses.error

\* the response's houses are the cusps c, as delivered or rounded to two
\* decimals
ReturnsCusps(r, c) ==
  \/ r.houses.cusps = c
  \/ r.houses.detailHouse = c
  \/ /\ Len(r.houses.cusps) = Len(c)
     /\ \A h \in 1..Len(c) : 2 * Abs(r.houses.cusps[h] * Scale - 100 * c[h]) <= Scale

\* the natal bodies of r were placed with the cusps c
PlacedWith(r, c) ==
  /\ Len(r.planets) = NumBodies
  /\ \A i \in 1..NumBodies :
       ephNatal[i] # NoLon => r.planets[i].house = HouseByRule(c, ephNatal[i])

\* C11: whenever the house query signals an error or warning, the
\* request still ends in a success response, that response carries the
\* warning, and any best-effort cusps delivered with the error are the
\* ones used for house assignment and returned as the houses.
C11_HouseErrorIsSurfaced ==
  HouseError =>
    \A n \in 1..Len(responses) :
      /\ responses[n].status = 200
      /\ CarriesWarning(responses[n])
      /\ BestEffortCusps # NoCusps =>
           /\ PlacedWith(responses[n], BestEffortCusps)
           /\ ReturnsCusps(responses[n], BestEffortCusps)

\* the flat listing does what C11 says unless parsing the transit
\* date throws
HouseErrorSurfacedFlat ==
  (variant = "flat" /\ ~parseThrows(req.tDate, req.tTime)) => C11_HouseErrorIsSurfaced

\* the structured listing keeps the request alive and uses and returns
\* the best-effort cusps, but its response has no warning
HouseErrorCuspsStructured ==
  (variant = "structured" /\ HouseError /\ ~parseThrows(req.tDate, req.tTime)) =>
    \A n \in 1..Len(responses) :
      /\ responses[n].status = 200
      /\ ~CarriesWarning(responses[n])
      /\ BestEffortCusps # NoCusps =>
           /\ PlacedWith(responses[n], BestEffortCusps)
           /\ ReturnsCusps(responses[n], BestEffortCusps)

\* ---------------------------------------------------------------------
\* Tolerance windows of the catalog
\* ---------------------------------------------------------------------
Max(a, b) == IF a >= b THEN a ELSE b

\* the separations in [0,180] an entry accepts, as << low, high >>
WindowOf(T) == << Max(0, T.angle - T.orb), Min(180, T.angle + T.orb) >>

ClaimedWindows ==
  { << 0, 8 >>, << 54, 66 >>, << 82, 98 >>, << 112, 128 >>, << 172, 180 >> }

WindowsDisjoint ==
  /\ { WindowOf(aspectTypes[k]) : k \in 1..Len(aspectTypes) } = ClaimedWindows
  /\ \A k, l \in 1..Len(aspectTypes) :
       k # l => \/ WindowOf(aspectTypes[k])[2] < WindowOf(aspectTypes[l])[1]
                \/ WindowOf(aspectTypes[l])[2] < WindowOf(aspectTypes[k])[1]

\* no two matches of out are between the same pair
AtMostOnePerPair(out) ==
  \A m, n \in 1..Len(out) : out[m].between = out[n].between => m = n

\* C12: the tolerance windows [0,8], [54,66], [82,98], [112,128],
\* [172,180] of the five-entry catalog are pairwise disjoint, so for any
\* two longitudes at most one aspect type matches: the same-set output
\* never has two matches with the same body pair, the cross-set output
\* never has two matches with the same (natal, transit) pair, and bodies
\* at 10 and 100 degrees yield exactly one match, a Square with orb 0.
C12_AtMostOneTypePerPair ==
  /\ WindowsDisjoint
  /\ called =>
       /\ AtMostOnePerPair(ret.same)
       /\ AtMostOnePerPair(ret.cross)
       /\ Cardinality({ T \in Catalog : arg.b # NoLon /\ Within(arg.a, arg.b, T) }) <= 1
       /\ (arg.a = Deg(10) /\ arg.b = Deg(100)) =>
            ret.same = << [type |-> "Square",
                           between |-> << PLANETS[1], PLANETS[2] >>,
                           orb |-> 0] >>

C12_Witness ==
  /\ called
  /\ arg.a = Deg(10)
  /\ arg.b = Deg(100)
  /\ Len(ret.same) = 1
  /\ ret.same[1].type = "Square"
  /\ Len(ret.cross) = 4

====
